---- MODULE Spec2Model ----
(***************************************************************************)
(* Model of the zip extractor (src/main.rs): the egui shell MyApp, the     *)
(* mpsc channel between the shell and the extraction thread, the thread's  *)
(* pass over the archives (extract_files_thread, process_zip_file_thread)  *)
(* and the file system it reads and writes.                                *)
(*                                                                         *)
(* Strings and paths are sequences of one-character strings, so that       *)
(* split, trim, to_lowercase, contains, file_name and extension are        *)
(* computed character by character as the Rust library computes them.      *)
(* A log message is a record [text, arg] standing for the line             *)
(* format!("<text>{}\n", arg); the log is the sequence of lines pushed.    *)
(***************************************************************************)
EXTENDS Integers, Sequences, FiniteSets, TLC

(* ------------------------------------------------------------------ *)
(* Bounds of the model                                                 *)
(* ------------------------------------------------------------------ *)

\* Number of extraction runs ("Extract Files" clicks that start a thread).
MaxRuns == 2

(* ------------------------------------------------------------------ *)
(* Strings                                                             *)
(* ------------------------------------------------------------------ *)

\* Option<T>: None is the empty sequence, Some(x) the one-element sequence.
None == <<>>

Some(x) == <<x>>

\* Strings are sequences of one-character strings. The helpers on them are
\* functions, so that an argument is a value wherever the body reads it.
Str == Seq(STRING)

LowerOf ==
  [A |-> "a", B |-> "b", C |-> "c", D |-> "d", E |-> "e", F |-> "f", G |-> "g",
   H |-> "h", I |-> "i", J |-> "j", K |-> "k", L |-> "l", M |-> "m", N |-> "n",
   O |-> "o", P |-> "p", Q |-> "q", R |-> "r", S |-> "s", T |-> "t", U |-> "u",
   V |-> "v", W |-> "w", X |-> "x", Y |-> "y", Z |-> "z"]

to_lowercase[s \in Str] ==
  IF s = <<>> THEN <<>>
  ELSE [k \in 1..Len(s) |-> IF s[k] \in DOMAIN LowerOf THEN LowerOf[s[k]] ELSE s[k]]

eq_ignore_ascii_case(s, t) == to_lowercase[s] = to_lowercase[t]

\* str::contains: pat occurs in s as a substring.
contains(s, pat) ==
  \E k \in 0..(Len(s) - Len(pat)) : SubSeq(s, k + 1, k + Len(pat)) = pat

\* str::split(sep): the pieces between the separators, empty pieces kept.
split[s \in Str, sep \in STRING] ==
  IF \A k \in 1..Len(s) : s[k] # sep THEN <<s>>
  ELSE LET k == CHOOSE j \in 1..Len(s) : s[j] = sep /\ \A h \in 1..(j - 1) : s[h] # sep
       IN <<SubSeq(s, 1, k - 1)>> \o split[SubSeq(s, k + 1, Len(s)), sep]

trim_start[s \in Str] ==
  IF s # <<>> /\ Head(s) = " " THEN trim_start[Tail(s)] ELSE s

trim_end[s \in Str] ==
  IF s # <<>> /\ s[Len(s)] = " " THEN trim_end[SubSeq(s, 1, Len(s) - 1)] ELSE s

trim[s \in Str] == trim_end[trim_start[s]]

\* str::trim_start_matches(c): every leading c is removed.
trim_start_matches[s \in Str, c \in STRING] ==
  IF s # <<>> /\ Head(s) = c THEN trim_start_matches[Tail(s), c] ELSE s

\* Iterator map over a sequence.
MapNormalize[pieces \in Seq(Str)] ==
  IF pieces = <<>> THEN <<>>
  ELSE <<to_lowercase[trim_start_matches[trim[Head(pieces)], "."]]>>
         \o MapNormalize[Tail(pieces)]

\* Iterator filter(|s| !s.is_empty()).
FilterNonEmpty[pieces \in Seq(Str)] ==
  IF pieces = <<>> THEN <<>>
  ELSE (IF Head(pieces) # <<>> THEN <<Head(pieces)>> ELSE <<>>)
         \o FilterNonEmpty[Tail(pieces)]

\* main.rs 63-67: split on ',', trim, strip leading dots, lower-case, drop empties.
filter_exts[extensions \in Str] == FilterNonEmpty[MapNormalize[split[extensions, ","]]]

Range(f) == {f[k] : k \in DOMAIN f}

(* ------------------------------------------------------------------ *)
(* Paths (std::path on a '/'-separated platform)                       *)
(* ------------------------------------------------------------------ *)

NormalComponents[pieces \in Seq(Str)] ==
  IF pieces = <<>> THEN <<>>
  ELSE (IF Head(pieces) # <<>> /\ Head(pieces) # <<".">> THEN <<Head(pieces)>> ELSE <<>>)
         \o NormalComponents[Tail(pieces)]

\* Path::components without the root: empty and "." components are dropped.
components[p \in Str] == NormalComponents[split[p, "/"]]

\* The last component of a path, None when there is none or it is "..".
LastComponent[cs \in Seq(Str)] ==
  IF cs = <<>> \/ cs[Len(cs)] = <<".", ".">> THEN None ELSE Some(cs[Len(cs)])

\* Path::file_name.
file_name[p \in Str] == LastComponent[components[p]]

\* The part of a file name after its last '.', None when the name has no '.'
\* or only a leading one.
AfterLastDot[n \in Str] ==
  IF \A k \in 1..Len(n) : n[k] # "." THEN None
  ELSE LET d == CHOOSE k \in 1..Len(n) : n[k] = "." /\ \A h \in (k + 1)..Len(n) : n[h] # "."
       IN IF d = 1 THEN None ELSE Some(SubSeq(n, d + 1, Len(n)))

\* Path::extension.
extension[p \in Str] ==
  IF file_name[p] = None THEN None ELSE AfterLastDot[file_name[p][1]]

\* Path::join of a relative name onto a directory path.
join(dir, name) == IF dir = <<>> THEN name ELSE dir \o <<"/">> \o name

\* Path::parent for the paths of the model (no trailing separators).
parent[p \in Str] ==
  IF \A k \in 1..Len(p) : p[k] # "/" THEN <<>>
  ELSE SubSeq(p, 1, (CHOOSE k \in 1..Len(p) :
                       p[k] = "/" /\ \A h \in (k + 1)..Len(p) : p[h] # "/") - 1)

(* ------------------------------------------------------------------ *)
(* The file system and the archives on it                              *)
(* ------------------------------------------------------------------ *)

\* Paths of the model: the input directory i with two archives and a text
\* file; its subdirectory i/s and the directory o (both absent at first); a
\* plain file f; an archive d.zip outside i that holds a directory entry only.
\* No entry of an archive is named like an archive the run reads from.
P_in == <<"i">>

P_out == <<"o">>

P_sub == <<"i", "/", "s">>

P_plain == <<"f">>

P_a == <<"i", "/", "a", ".", "z", "i", "p">>

P_B == <<"i", "/", "B", ".", "Z", "I", "P">>

P_n == <<"i", "/", "n", ".", "t", "x", "t">>

P_d == <<"d", ".", "z", "i", "p">>

\* File contents are sequences of blocks of bytes; an archive is one block.
BytesA == <<"PK-A">>

BytesB == <<"PK-B">>

BytesC == <<"PK-C">>

BytesD == <<"PK-D">>

ZipEntry(n, d) == [name |-> n, data |-> d]

\* The entries of the archives, in container order.
EntriesA ==
  << ZipEntry(<<"d", "/", "r", ".", "p", "d", "f">>, <<"r1">>),
     ZipEntry(<<"_", "_", "M", "A", "C", "O", "S", "X", "/", "r", ".", "p", "d", "f">>, <<"m">>),
     ZipEntry(<<"p", ".", "P", "N", "G">>, <<"g">>),
     ZipEntry(<<"x", "/", ".", ".">>, <<"u">>),
     ZipEntry(<<"b", ".", "z", "i", "p">>, BytesC) >>

EntriesB ==
  << ZipEntry(<<"e", "/", "r", ".", "p", "d", "f">>, <<"r2">>),
     ZipEntry(<<"r", ".", "p", "d", "f">>, <<"r3">>),
     ZipEntry(<<"k">>, <<"k">>) >>

EntriesC ==
  << ZipEntry(<<"c", ".", "t", "x", "t">>, <<"c">>) >>

EntriesD ==
  << ZipEntry(<<"d", "/">>, <<>>) >>

\* ZipArchive::new: the entries of a well-formed archive, None for any other
\* bytes (a text file, a truncated archive).
ZipArchive_new(bytes) ==
  IF bytes = BytesA THEN Some(EntriesA)
  ELSE IF bytes = BytesB THEN Some(EntriesB)
  ELSE IF bytes = BytesC THEN Some(EntriesC)
  ELSE IF bytes = BytesD THEN Some(EntriesD)
  ELSE None

\* ZipFile::is_dir: the entry's name ends with a separator.
is_dir_entry(e) == e.name # <<>> /\ e.name[Len(e.name)] = "/"

DirNode == [dir |-> TRUE, bytes |-> <<>>]

FileNode(b) == [dir |-> FALSE, bytes |-> b]

InitFs ==
  (P_in :> DirNode) @@ (P_a :> FileNode(BytesA)) @@ (P_B :> FileNode(BytesB))
    @@ (P_n :> FileNode(<<"t">>)) @@ (P_plain :> FileNode(<<"t">>))
    @@ (P_d :> FileNode(BytesD))

\* Path::is_dir, Path::is_file
is_dir(f, p) == p \in DOMAIN f /\ f[p].dir

\* Path::exists in the place of Path::is_file.
is_file_Exists(f, p) == p \in DOMAIN f

is_file(f, p) == p \in DOMAIN f /\ ~f[p].dir

RECURSIVE create_dir_all(_, _)
\* fs::create_dir_all: [ok, fs]; the empty path and an existing directory are
\* fine, an existing file in the way is an error, parents are made first.
create_dir_all(f, p) ==
  IF p = <<>> \/ is_dir(f, p) THEN [ok |-> TRUE, fs |-> f]
  ELSE IF p \in DOMAIN f THEN [ok |-> FALSE, fs |-> f]
  ELSE LET up == create_dir_all(f, parent[p])
       IN IF up.ok THEN [ok |-> TRUE, fs |-> (p :> DirNode) @@ up.fs]
          ELSE up

\* The file opened for appending instead of truncated.
WriteFile_Append(f, p, b) ==
  (p :> FileNode(IF p \in DOMAIN f THEN f[p].bytes \o b ELSE b)) @@ f

\* The file created only when there is none (create_new).
WriteFile_KeepExisting(f, p, b) ==
  IF p \in DOMAIN f THEN f ELSE (p :> FileNode(b)) @@ f

\* The file at p holds exactly bytes b (File::create truncates, io::copy writes).
WriteFile(f, p, b) == (p :> FileNode(b)) @@ f

\* The order in which the platform enumerates a directory's entries: it is
\* platform-dependent; the model fixes one, the same for every run.
PlatformOrder == <<P_a, P_B, P_n, P_sub,
                   <<"i", "/", "r", ".", "p", "d", "f">>,
                   <<"i", "/", "p", ".", "P", "N", "G">>,
                   <<"i", "/", "b", ".", "z", "i", "p">>,
                   <<"i", "/", "k">>,
                   <<"i", "/", "c", ".", "t", "x", "t">> >>

Children(f, d) == {p \in DOMAIN f : p # <<>> /\ parent[p] = d}

RECURSIVE SeqOfOrdered(_, _)
SeqOfOrdered(order, S) ==
  IF order = <<>> THEN <<>>
  ELSE (IF Head(order) \in S THEN <<Head(order)>> ELSE <<>>) \o SeqOfOrdered(Tail(order), S)

\* fs::read_dir: the children of d at the time of the call, in platform order.
read_dir(f, d) == SeqOfOrdered(PlatformOrder, Children(f, d))

\* The regular files directly in directory d, with their contents.
Listing(f, d) ==
  LET files == {p \in Children(f, d) : ~f[p].dir}
  IN [p \in files |-> f[p].bytes]

(* ------------------------------------------------------------------ *)
(* State                                                               *)
(* ------------------------------------------------------------------ *)

VARIABLES
  input_path,    \* MyApp.input_path
  extensions,    \* MyApp.extensions
  output_path,   \* MyApp.output_path
  input_type,    \* MyApp.input_type: "File" or "Directory"
  log,           \* MyApp.log: the lines pushed so far
  log_rx,        \* MyApp.log_rx: None, or Some(r) for the receiver of run r
  is_extracting, \* MyApp.is_extracting
  chan,          \* chan[r]: the mpsc channel of run r: queue, sender alive
  worker,        \* worker[r]: the thread of run r: locals and position
  fs,            \* the file system: path -> node
  nruns,         \* threads spawned so far
  sent,          \* history: sent[r] = the messages run r passed to sender.send
                 \* (forgotten when a later run is started)
  snap           \* history: snap[r] = the output directory's files when run r returned

vars == <<input_path, extensions, output_path, input_type, log, log_rx,
          is_extracting, chan, worker, fs, nruns, sent, snap>>

shell == <<input_path, extensions, output_path, input_type, log, log_rx, is_extracting>>

Runs == 1..MaxRuns

Msg(text, arg) == [text |-> text, arg |-> arg]

M_NoExts == Msg("No file extensions provided, extracting all files.", <<>>)

M_NotDir(p) == Msg(" is not a valid directory.", p)

M_NotFile(p) == Msg(" is not a valid file.", p)

M_Processing(p) == Msg("Processing zip file: ", p)

M_Extracted(p) == Msg("Extracted: ", p)

M_Warning(n) == Msg("Warning: Skipping entry with invalid file name: ", n)

M_Completed == Msg("Extraction completed successfully.", <<>>)

\* A thread that has not been spawned.
Unborn ==
  [pc |-> "unborn", input_path |-> <<>>, output_path |-> <<>>, extensions |-> <<>>,
   input_type |-> "File", filter_exts |-> <<>>, todo |-> <<>>, known |-> {},
   zip_path |-> <<>>, archive |-> <<>>, i |-> 0, result |-> "none"]

\* A thread that has ended: its locals are gone; what it was called with and
\* what the function returned are kept for the record.
Exited(w) ==
  [Unborn EXCEPT !.pc = "exited", !.input_path = w.input_path,
                 !.output_path = w.output_path, !.extensions = w.extensions,
                 !.input_type = w.input_type, !.result = w.result]

Running(w) == w.pc \notin {"unborn", "exited"}

\* The values the form fields are given in the model.
InputPaths == {<<>>, P_in, P_a, P_d}

InputTypes == {"File", "Directory"}

\* "" and " .PDF,png, ,.Zip "
ExtensionTexts ==
  { <<>>,
    <<" ", ".", "P", "D", "F", ",", "p", "n", "g", ",", " ", ",", ".", "Z", "i", "p", " ">> }

OutputPaths == {P_out, P_in, P_sub, P_plain}

Init ==
  /\ input_path = <<>>
  /\ extensions = <<>>
  /\ output_path = <<>>
  /\ input_type = "File"
  /\ log = <<>>
  /\ log_rx = None
  /\ is_extracting = FALSE
  /\ chan = [r \in Runs |-> [queue |-> <<>>, tx |-> FALSE]]
  /\ worker = [r \in Runs |-> Unborn]
  /\ fs = InitFs
  /\ nruns = 0
  /\ sent = [r \in Runs |-> <<>>]
  /\ snap = [r \in Runs |-> <<>>]

(* ------------------------------------------------------------------ *)
(* The shell: MyApp::update                                            *)
(* ------------------------------------------------------------------ *)

\* Drain that treats Disconnected like Empty: the shell is never re-enabled.
Drain_IgnoreDisconnected ==
  IF log_rx = None
  THEN [log |-> log, log_rx |-> log_rx, is_extracting |-> is_extracting, taken |-> None]
  ELSE [log |-> log \o chan[log_rx[1]].queue, log_rx |-> log_rx,
        is_extracting |-> is_extracting, taken |-> log_rx]

\* Drain that looks at the sender first: what a finished thread left in the
\* queue is dropped with the receiver.
Drain_DisconnectedFirst ==
  IF log_rx = None
  THEN [log |-> log, log_rx |-> log_rx, is_extracting |-> is_extracting, taken |-> None]
  ELSE LET r == log_rx[1]
       IN [log |-> IF chan[r].tx THEN log \o chan[r].queue ELSE log,
           log_rx |-> IF chan[r].tx THEN log_rx ELSE None,
           is_extracting |-> IF chan[r].tx THEN is_extracting ELSE FALSE,
           taken |-> log_rx]

\* main.rs 164-176: the receiver's queue is emptied into the log; when the
\* queue is empty and the sender is gone try_recv answers Disconnected.
Drain ==
  IF log_rx = None
  THEN [log |-> log, log_rx |-> log_rx, is_extracting |-> is_extracting, taken |-> None]
  ELSE LET r == log_rx[1]
       IN [log |-> log \o chan[r].queue,
           log_rx |-> IF chan[r].tx THEN log_rx ELSE None,
           is_extracting |-> IF chan[r].tx THEN is_extracting ELSE FALSE,
           taken |-> log_rx]

\* The button without its is_extracting guard.
StartsRun_Unguarded(clicked, extracting) == clicked

\* main.rs 222: the button's guard.
StartsRun(clicked, extracting) == clicked /\ ~extracting

\* One call of update: drain, the form widgets, the "Extract Files" button.
\* The form is filled in before the first run and left as it is afterwards.
update(clicked, ip, ity, ex, op) ==
  LET d == Drain
      edited == <<ip, ity, ex, op>> # <<input_path, input_type, extensions, output_path>>
      r == nruns + 1
  IN /\ edited => nruns = 0
     /\ input_path' = ip
     /\ input_type' = ity
     /\ extensions' = ex
     /\ output_path' = op
     /\ IF StartsRun(clicked, d.is_extracting)
        THEN /\ nruns < MaxRuns
             /\ log' = <<>>
             /\ log_rx' = Some(r)
             /\ is_extracting' = TRUE
             /\ nruns' = r
             /\ worker' = [worker EXCEPT ![r] =
                  [Unborn EXCEPT !.pc = "start", !.input_path = ip, !.output_path = op,
                                 !.extensions = ex, !.input_type = ity]]
             /\ sent' = [q \in Runs |-> <<>>]
             /\ chan' = [q \in Runs |->
                  IF q = r THEN [queue |-> <<>>, tx |-> TRUE]
                  ELSE IF d.taken = Some(q) THEN [chan[q] EXCEPT !.queue = <<>>]
                  ELSE chan[q]]
        ELSE /\ log' = d.log
             /\ log_rx' = d.log_rx
             /\ is_extracting' = d.is_extracting
             /\ chan' = [q \in Runs |->
                  IF d.taken = Some(q) THEN [chan[q] EXCEPT !.queue = <<>>] ELSE chan[q]]
             /\ UNCHANGED <<nruns, worker, sent>>
     /\ UNCHANGED <<fs, snap>>

\* What the form widgets can leave in the fields during one update.
Forms ==
  IF nruns = 0
  THEN (InputPaths \cup {input_path}) \X InputTypes \X ExtensionTexts
         \X (OutputPaths \cup {output_path})
  ELSE {<<input_path, input_type, extensions, output_path>>}

Update ==
  \E clicked \in BOOLEAN, f \in Forms : update(clicked, f[1], f[2], f[3], f[4])

(* ------------------------------------------------------------------ *)
(* The extraction thread                                               *)
(* ------------------------------------------------------------------ *)

\* sender.send(m): the message joins the queue while the receiver lives
\* (the result of send is ignored, main.rs "let _ =").
Send(r, m) ==
  /\ chan' = [chan EXCEPT ![r].queue =
                IF log_rx = Some(r) THEN Append(@, m) ELSE @]
  /\ sent' = [sent EXCEPT ![r] = Append(@, m)]

NoSend == UNCHANGED <<chan, sent>>

\* A failure that skips the archive instead of ending the run.
Fail_SkipArchive(w) ==
  [w EXCEPT !.pc = IF w.input_type = "Directory" /\ w.pc \in {"open", "entry"}
                   THEN "read_dir" ELSE "return",
            !.result = IF w.input_type = "Directory" /\ w.pc \in {"open", "entry"}
                       THEN "none" ELSE "Err"]

\* The function returns Err: `?` or an explicit return.
Fail(w) == [w EXCEPT !.pc = "return", !.result = "Err"]

\* main.rs 58-72: create_dir_all, the filter, the "no extensions" line.
W_Start(r) ==
  LET w == worker[r]
      made == create_dir_all(fs, w.output_path)
      exts == filter_exts[w.extensions]
  IN /\ w.pc = "start"
     /\ IF ~made.ok
        THEN /\ worker' = [worker EXCEPT ![r] = Fail(w)]
             /\ UNCHANGED fs
             /\ NoSend
        ELSE /\ fs' = made.fs
             /\ worker' = [worker EXCEPT ![r] =
                  [w EXCEPT !.pc = "check_input", !.filter_exts = exts]]
             /\ IF exts = <<>> THEN Send(r, M_NoExts) ELSE NoSend
     /\ UNCHANGED <<shell, nruns, snap>>

\* main.rs 74-80 and 95-99: the input path against the selector.
W_CheckInput(r) ==
  LET w == worker[r]
  IN /\ w.pc = "check_input"
     /\ IF w.input_type = "Directory"
        THEN IF ~is_dir(fs, w.input_path)
             THEN /\ Send(r, M_NotDir(w.input_path))
                  /\ worker' = [worker EXCEPT ![r] = Fail(w)]
             ELSE /\ NoSend
                  /\ LET listing == read_dir(fs, w.input_path)
                     IN worker' = [worker EXCEPT ![r] =
                          [w EXCEPT !.pc = "read_dir", !.todo = listing,
                                    !.known = Range(listing)]]
        ELSE IF ~is_file(fs, w.input_path)
             THEN /\ Send(r, M_NotFile(w.input_path))
                  /\ worker' = [worker EXCEPT ![r] = Fail(w)]
             ELSE /\ Send(r, M_Processing(w.input_path))
                  /\ worker' = [worker EXCEPT ![r] =
                       [w EXCEPT !.pc = "open", !.zip_path = w.input_path]]
     /\ UNCHANGED <<shell, fs, nruns, snap>>

\* main.rs 80: fs::read_dir(&input_path)? fails.
W_ReadDirFails(r) ==
  LET w == worker[r]
  IN /\ w.pc = "check_input"
     /\ w.input_type = "Directory"
     /\ is_dir(fs, w.input_path)
     /\ worker' = [worker EXCEPT ![r] = Fail(w)]
     /\ NoSend
     /\ UNCHANGED <<shell, fs, nruns, snap>>

\* main.rs 83-89: a regular file whose extension is "zip" in any case.
IsZipFile(f, p) ==
  /\ is_file(f, p)
  /\ LET e == extension[p] IN e # None /\ eq_ignore_ascii_case(e[1], <<"z", "i", "p">>)

\* main.rs 80-93: one turn of the loop over the directory, for child p.
VisitChild(r, w, p) ==
  IF IsZipFile(fs, p)
  THEN /\ Send(r, M_Processing(p))
       /\ worker' = [worker EXCEPT ![r] = [w EXCEPT !.pc = "open", !.zip_path = p]]
  ELSE /\ NoSend
       /\ worker' = [worker EXCEPT ![r] = w]

\* The iterator yields the next child of the listing taken at read_dir.
W_NextChild(r) ==
  LET w == worker[r]
  IN /\ w.pc = "read_dir"
     /\ w.todo # <<>>
     /\ VisitChild(r, [w EXCEPT !.todo = Tail(w.todo)], Head(w.todo))
     /\ UNCHANGED <<shell, fs, nruns, snap>>

\* A file created in the directory after read_dir was called may or may not
\* be yielded by the iterator (unspecified by the platform).
W_LateChild(r) ==
  LET w == worker[r]
  IN /\ w.pc = "read_dir"
     /\ \E p \in Children(fs, w.input_path) \ w.known :
          VisitChild(r, [w EXCEPT !.known = @ \cup {p}], p)
     /\ UNCHANGED <<shell, fs, nruns, snap>>

\* main.rs 81: `entry?` fails.
W_DirEntryFails(r) ==
  LET w == worker[r]
  IN /\ w.pc = "read_dir"
     /\ w.todo # <<>>
     /\ worker' = [worker EXCEPT ![r] = Fail(w)]
     /\ NoSend
     /\ UNCHANGED <<shell, fs, nruns, snap>>

\* The iterator ends: the loop is left.
W_DirDone(r) ==
  LET w == worker[r]
  IN /\ w.pc = "read_dir"
     /\ w.todo = <<>>
     /\ worker' = [worker EXCEPT ![r].pc = "complete"]
     /\ NoSend
     /\ UNCHANGED <<shell, fs, nruns, snap>>

\* main.rs 117-118: File::open and ZipArchive::new.
W_Open(r) ==
  LET w == worker[r]
      parsed == ZipArchive_new(fs[w.zip_path].bytes)
  IN /\ w.pc = "open"
     /\ worker' = [worker EXCEPT ![r] =
          IF parsed = None THEN Fail(w)
          ELSE [w EXCEPT !.pc = "entry", !.archive = parsed[1], !.i = 1]]
     /\ NoSend
     /\ UNCHANGED <<shell, fs, nruns, snap>>

\* main.rs 117: File::open fails (the file cannot be read).
W_OpenFails(r) ==
  LET w == worker[r]
  IN /\ w.pc = "open"
     /\ worker' = [worker EXCEPT ![r] = Fail(w)]
     /\ NoSend
     /\ UNCHANGED <<shell, fs, nruns, snap>>

\* should_extract with the comparison made case-sensitive.
should_extract_CaseSensitive(exts, e) ==
  IF exts = <<>> THEN TRUE
  ELSE LET entry_ext == extension[e.name]
       IN IF entry_ext # None THEN entry_ext[1] \in Range(exts)
          ELSE FALSE

\* main.rs 135-141
should_extract(exts, e) ==
  IF exts = <<>> THEN TRUE
  ELSE LET entry_ext == extension[e.name]
       IN IF entry_ext # None THEN to_lowercase[entry_ext[1]] \in Range(exts)
          ELSE FALSE

\* main.rs 124: the metadata marker.
IsMetadata(e) == contains(e.name, <<"_", "_", "M", "A", "C", "O", "S", "X">>)

\* main.rs 124-143: the entry passes the marker test, is a file, and is wanted.
Selected(exts, e) == ~IsMetadata(e) /\ ~is_dir_entry(e) /\ should_extract(exts, e)

\* Where the loop over the entries goes next.
NextEntry(w) == [w EXCEPT !.i = w.i + 1]

\* main.rs 119-157: one turn of the loop over the entries that ends normally.
W_Entry(r) ==
  LET w == worker[r]
      e == w.archive[w.i]
      fname == file_name[e.name]
  IN /\ w.pc = "entry"
     /\ w.i <= Len(w.archive)
     /\ worker' = [worker EXCEPT ![r] = NextEntry(w)]
     /\ IF Selected(w.filter_exts, e)
        THEN IF fname # None
             THEN /\ ~is_dir(fs, join(w.output_path, fname[1]))
                  /\ fs' = WriteFile(fs, join(w.output_path, fname[1]), e.data)
                  /\ Send(r, M_Extracted(join(w.output_path, fname[1])))
             ELSE /\ Send(r, M_Warning(e.name))
                  /\ UNCHANGED fs
        ELSE /\ NoSend
             /\ UNCHANGED fs
     /\ UNCHANGED <<shell, nruns, snap>>

\* main.rs 120: archive.by_index(i)? fails.
W_ByIndexFails(r) ==
  LET w == worker[r]
  IN /\ w.pc = "entry"
     /\ w.i <= Len(w.archive)
     /\ worker' = [worker EXCEPT ![r] = Fail(w)]
     /\ NoSend
     /\ UNCHANGED <<shell, fs, nruns, snap>>

\* main.rs 146: File::create fails; the file, if any, is left as it was.
W_CreateFails(r) ==
  LET w == worker[r]
      e == w.archive[w.i]
  IN /\ w.pc = "entry"
     /\ w.i <= Len(w.archive)
     /\ Selected(w.filter_exts, e)
     /\ file_name[e.name] # None
     /\ worker' = [worker EXCEPT ![r] = Fail(w)]
     /\ NoSend
     /\ UNCHANGED <<shell, fs, nruns, snap>>

\* main.rs 146-147: File::create has truncated the file and io::copy fails
\* after writing the first n bytes of the entry.
W_CopyFails(r) ==
  LET w == worker[r]
      e == w.archive[w.i]
      fname == file_name[e.name]
  IN /\ w.pc = "entry"
     /\ w.i <= Len(w.archive)
     /\ Selected(w.filter_exts, e)
     /\ fname # None
     /\ ~is_dir(fs, join(w.output_path, fname[1]))
     /\ \E n \in 0..Len(e.data) :
          fs' = WriteFile(fs, join(w.output_path, fname[1]), SubSeq(e.data, 1, n))
     /\ worker' = [worker EXCEPT ![r] = Fail(w)]
     /\ NoSend
     /\ UNCHANGED <<shell, nruns, snap>>

\* main.rs 158 and 91/100: process_zip_file_thread returns Ok.
W_ArchiveDone(r) ==
  LET w == worker[r]
  IN /\ w.pc = "entry"
     /\ w.i > Len(w.archive)
     /\ worker' = [worker EXCEPT ![r].pc =
          IF w.input_type = "Directory" THEN "read_dir" ELSE "complete"]
     /\ NoSend
     /\ UNCHANGED <<shell, fs, nruns, snap>>

\* Ok(()) without the completion line.
W_Complete_NoLine(r) ==
  LET w == worker[r]
  IN /\ w.pc = "complete"
     /\ NoSend
     /\ worker' = [worker EXCEPT ![r] = [w EXCEPT !.pc = "return", !.result = "Ok"]]
     /\ UNCHANGED <<shell, fs, nruns, snap>>

\* main.rs 102-103: the completion line, Ok(()).
W_Complete(r) ==
  LET w == worker[r]
  IN /\ w.pc = "complete"
     /\ Send(r, M_Completed)
     /\ worker' = [worker EXCEPT ![r] = [w EXCEPT !.pc = "return", !.result = "Ok"]]
     /\ UNCHANGED <<shell, fs, nruns, snap>>

\* The function has returned: its sender is dropped and the thread ends
\* (main.rs 232-234; the Result is discarded).
W_Return(r) ==
  LET w == worker[r]
  IN /\ w.pc = "return"
     /\ worker' = [worker EXCEPT ![r] = Exited(w)]
     /\ chan' = [chan EXCEPT ![r].tx = FALSE]
     /\ snap' = [snap EXCEPT ![r] = Listing(fs, w.output_path)]
     /\ UNCHANGED <<shell, fs, nruns, sent>>

WorkerStep(r) ==
  \/ W_Start(r)
  \/ W_CheckInput(r)
  \/ W_ReadDirFails(r)
  \/ W_NextChild(r)
  \/ W_LateChild(r)
  \/ W_DirEntryFails(r)
  \/ W_DirDone(r)
  \/ W_Open(r)
  \/ W_OpenFails(r)
  \/ W_Entry(r)
  \/ W_ByIndexFails(r)
  \/ W_CreateFails(r)
  \/ W_CopyFails(r)
  \/ W_ArchiveDone(r)
  \/ W_Complete(r)
  \/ W_Return(r)

Worker == \E r \in Runs : WorkerStep(r)

Next == Update \/ Worker

Spec == Init /\ [][Next]_vars

\* update called with no input from the user: a repaint.
Tick == update(FALSE, input_path, input_type, extensions, output_path)

\* The threads keep being scheduled and the shell keeps being repainted.
FairSpec == Spec /\ WF_vars(Tick) /\ \A r \in Runs : WF_vars(WorkerStep(r))

(* ------------------------------------------------------------------ *)
(* Properties                                                          *)
(* ------------------------------------------------------------------ *)

IsPrefix(s, t) == Len(s) <= Len(t) /\ SubSeq(t, 1, Len(s)) = s

\* The run that is in flight, or was the last to be.
Latest(r) == r = nruns

Marker == <<"_", "_", "M", "A", "C", "O", "S", "X">>

LastSegment(name) == LET ps == split[name, "/"] IN ps[Len(ps)]

EndsWithSeparator(name) == name # <<>> /\ name[Len(name)] = "/"

InFilter(text, name) ==
  \/ filter_exts[text] = <<>>
  \/ /\ extension[name] # None
     /\ to_lowercase[extension[name][1]] \in Range(filter_exts[text])

\* Eligibility as the claim words it: the last path segment is non-empty.
EligibleBySegment(text, e) ==
  /\ ~EndsWithSeparator(e.name)
  /\ ~contains(e.name, Marker)
  /\ LastSegment(e.name) # <<>>
  /\ InFilter(text, e.name)

\* Eligibility with the base name Path::file_name computes: the last
\* component, which a path that is empty or ends in ".." does not have.
EligibleByFileName(text, e) ==
  /\ ~EndsWithSeparator(e.name)
  /\ ~contains(e.name, Marker)
  /\ file_name[e.name] # None
  /\ InFilter(text, e.name)

\* A turn of the entry loop of run r that ends normally writes the entry
\* (file on disk with the entry's bytes, one "Extracted" line) exactly when
\* the entry is eligible.
EntryTurn(r, by_file_name) ==
  LET w == worker[r]
      e == w.archive[w.i]
      target == join(w.output_path, LastSegment(e.name))
      new == SubSeq(sent'[r], Len(sent[r]) + 1, Len(sent'[r]))
  IN (/\ w.pc = "entry"
      /\ w.i <= Len(w.archive)
      /\ worker'[r].pc = "entry"
      /\ worker'[r].i = w.i + 1)
     => IF (IF by_file_name THEN EligibleByFileName(w.extensions, e)
                            ELSE EligibleBySegment(w.extensions, e))
        THEN /\ target \in DOMAIN fs'
             /\ fs'[target] = FileNode(e.data)
             /\ new = <<M_Extracted(target)>>
        ELSE /\ fs' = fs
             /\ \A k \in DOMAIN new : new[k].text # "Extracted: "

\* C1 as stated: an entry is written iff it is not a directory entry, its
\* path does not contain "__MACOSX", its last path segment is non-empty and
\* the normalized filter is empty or holds its lower-cased extension.
C1_WrittenIffEligible_AsStated ==
  [][\A r \in Runs : EntryTurn(r, FALSE)]_vars

\* C1 amended: an entry is written iff it is not a directory entry, its path
\* does not contain "__MACOSX", its path has a file name (it is not empty and
\* does not end in "..") and the normalized filter is empty or holds its
\* lower-cased extension.
C1_WrittenIffEligible ==
  [][\A r \in Runs : EntryTurn(r, TRUE)]_vars

\* A filtered run over the directory has ended well, report.pdf is out and
\* the upper-case .PNG entry too.
C1_Witness ==
  \E r \in Runs :
    /\ worker[r].pc = "exited"
    /\ worker[r].result = "Ok"
    /\ worker[r].input_type = "Directory"
    /\ filter_exts[worker[r].extensions] # <<>>
    /\ worker[r].output_path = P_out
    /\ join(P_out, <<"r", ".", "p", "d", "f">>) \in DOMAIN fs
    /\ join(P_out, <<"p", ".", "P", "N", "G">>) \in DOMAIN fs

RunningSet == {r \in Runs : Running(worker[r])}

\* C2: at most one extraction thread runs at any time, the shell shows
\* is_extracting while it runs, and no step taken while a thread runs starts
\* a thread, makes a channel or clears the log.
C2_NoConcurrentExtraction ==
  /\ [](Cardinality(RunningSet) <= 1)
  /\ [](\A r \in RunningSet : is_extracting /\ log_rx = Some(r) /\ chan[r].tx)
  /\ [][RunningSet # {} =>
         /\ nruns' = nruns
         /\ log_rx' = log_rx
         /\ IsPrefix(log, log')
         /\ \A q \in Runs : worker[q].pc = "unborn" =>
               worker'[q].pc = "unborn" /\ chan'[q] = chan[q]]_vars

\* A second thread runs, after the first has ended.
C2_Witness ==
  /\ nruns = 2
  /\ worker[1].pc = "exited"
  /\ worker[2].pc = "entry"
  /\ is_extracting

\* C3: after a run that returned Err, the log's last line is prefixed
\* "Error:".
C3_ErrorLineLast ==
  \A r \in Runs :
    (Latest(r) /\ worker[r].pc = "exited" /\ worker[r].result = "Err" /\ ~is_extracting)
      => (log # <<>> /\ log[Len(log)].text = "Error: ")
\* A click on "Extract Files" that starts a run.
ClickStarts ==
  /\ update(TRUE, input_path, input_type, extensions, output_path)
  /\ nruns' = nruns + 1

\* C4: every started run ends; once it has, the shell's receiver of that run
\* is given up by a later update (is_extracting false, log_rx None); and
\* whenever the shell is not extracting a click starts a run (as long as the
\* model has runs left).
C4_ReenabledAfterRun ==
  /\ \A r \in Runs : Running(worker[r]) ~> (worker[r].pc = "exited")
  /\ \A r \in Runs : (log_rx = Some(r) /\ is_extracting) ~> (log_rx # Some(r))
  /\ [][\A r \in Runs : (log_rx = Some(r) /\ log_rx' # log_rx)
          => (worker[r].pc = "exited" /\ (log_rx' = None => ~is_extracting'))]_vars
  /\ []((~is_extracting /\ nruns < MaxRuns) => ENABLED ClickStarts)

\* The first run has ended, the shell was re-enabled and a second run started.
C4_Witness ==
  /\ nruns = 2
  /\ worker[1].pc = "exited"
  /\ worker[2].pc = "start"
  /\ log_rx = Some(2)
  /\ log = <<>>

HasLine(msgs, text) == \E k \in DOMAIN msgs : msgs[k].text = text

Returned(w) == w.pc \in {"return", "exited"}

\* C5: the completion line is sent iff the run returns Ok, and once sent it
\* is the last message of the run.
C5_CompletionLine ==
  \A r \in Runs :
    /\ HasLine(sent[r], M_Completed.text) =>
         /\ sent[r][Len(sent[r])] = M_Completed
         /\ \A k \in 1..(Len(sent[r]) - 1) : sent[r][k] # M_Completed
         /\ worker[r].result = "Ok"
    /\ (Latest(r) /\ Returned(worker[r])) =>
         (worker[r].result = "Ok" <=> HasLine(sent[r], M_Completed.text))

\* A run over the archive that holds a directory entry only, with no filter,
\* has returned Ok: nothing was extracted and the completion line was sent.
C5_Witness ==
  \E r \in Runs :
    /\ Latest(r)
    /\ worker[r].pc = "exited"
    /\ worker[r].result = "Ok"
    /\ worker[r].input_path = P_d
    /\ worker[r].extensions = <<>>
    /\ ~HasLine(sent[r], "Extracted: ")
    /\ sent[r][Len(sent[r])] = M_Completed

\* The input path does not name what the selector says it names.
InvalidInput(w) ==
  IF w.input_type = "Directory"
  THEN ~(w.input_path \in DOMAIN fs /\ fs[w.input_path].dir)
  ELSE ~(w.input_path \in DOMAIN fs /\ ~fs[w.input_path].dir)

RegularFiles(f) == {p \in DOMAIN f : ~f[p].dir}

\* The report of an invalid input path.
Reported(r) ==
  \/ HasLine(sent[r], M_NotFile(<<>>).text)
  \/ HasLine(sent[r], M_NotDir(<<>>).text)

\* With an invalid input path nothing is extracted: no archive is opened, no
\* file is written, no completion line is sent, and the run returns Err.
NoExtraction(r) ==
  /\ worker[r].pc \notin {"read_dir", "open", "entry", "complete"}
  /\ ~HasLine(sent[r], M_Processing(<<>>).text)
  /\ ~HasLine(sent[r], "Extracted: ")
  /\ ~HasLine(sent[r], M_Completed.text)
  /\ RegularFiles(fs) = RegularFiles(InitFs)
  /\ \A p \in RegularFiles(fs) : fs[p] = InitFs[p]
  /\ Returned(worker[r]) => worker[r].result = "Err"

OutputDirReady(w) ==
  w.output_path = <<>> \/ (w.output_path \in DOMAIN fs /\ fs[w.output_path].dir)

WrittenPaths(r) ==
  {sent[r][k].arg : k \in {j \in DOMAIN sent[r] : sent[r][j].text = "Extracted: "}}

\* The file an entry is written to.
SpareTarget(w, e) == {join(w.output_path, LastSegment(e.name))}

\* The steps of a run over a directory, once it is past the input check:
\* each step goes on as the code's success path does or ends the run with
\* Err, sending nothing and leaving every file but those of Spare as it was;
\* after Err nothing is processed, written or sent.
AbortSteps(r, spare_target) ==
  LET w == worker[r]
      w2 == worker'[r]
      aborts == w2.pc = "return" /\ w2.result = "Err" /\ sent'[r] = sent[r]
      kept(S) == \A p \in DOMAIN fs : p \in S \/ (p \in DOMAIN fs' /\ fs'[p] = fs[p])
  IN (w.input_type = "Directory" /\ w2 # w) =>
       /\ w.pc = "read_dir" =>
            \/ w2.pc \in {"read_dir", "open", "complete"} /\ w2.result = "none"
            \/ aborts /\ fs' = fs
       /\ w.pc = "open" =>
            \/ /\ w2.pc = "entry"
               /\ Some(w2.archive) = ZipArchive_new(fs[w.zip_path].bytes)
               /\ w2.result = "none"
            \/ aborts /\ fs' = fs
       /\ (w.pc = "entry" /\ w.i <= Len(w.archive)) =>
            \/ w2.pc = "entry" /\ w2.i = w.i + 1 /\ w2.result = "none"
            \/ /\ aborts
               /\ kept(IF spare_target THEN SpareTarget(w, w.archive[w.i]) ELSE {})
               /\ WrittenPaths(r) \subseteq DOMAIN fs'
       /\ w.pc = "return" =>
            /\ w2.pc = "exited"
            /\ w2.result = w.result
            /\ fs' = fs
            /\ sent'[r] = sent[r]
            /\ nruns' = nruns

\* C7 as stated: a failure ends the run at once and every file written
\* before stays as it is.
C7_AbortNoRollback_AsStated ==
  [][\A r \in Runs : AbortSteps(r, FALSE)]_vars

\* C7 amended: a failure ends the run at once; every file written before
\* stays in the output directory, unchanged except the file that has the
\* failing entry's base name, which File::create has emptied and io::copy may
\* have partly rewritten.
C7_AbortNoRollback ==
  [][\A r \in Runs : AbortSteps(r, TRUE)]_vars

\* A run over the directory failed in its second archive; what it extracted
\* before is still there.
C7_Witness ==
  \E r \in Runs :
    /\ Latest(r)
    /\ worker[r].pc = "exited"
    /\ worker[r].result = "Err"
    /\ worker[r].input_type = "Directory"
    /\ Cardinality({k \in DOMAIN sent[r] : sent[r][k].text = M_Processing(<<>>).text}) = 2
    /\ WrittenPaths(r) # {}
    /\ WrittenPaths(r) \subseteq DOMAIN fs

SameRequest(w, v) ==
  /\ w.input_path = v.input_path
  /\ w.input_type = v.input_type
  /\ w.extensions = v.extensions
  /\ w.output_path = v.output_path

TwiceOk(r) ==
  /\ r + 1 \in Runs
  /\ worker[r].pc = "exited"
  /\ worker[r + 1].pc = "exited"
  /\ worker[r].result = "Ok"
  /\ worker[r + 1].result = "Ok"
  /\ SameRequest(worker[r], worker[r + 1])

RECURSIVE SelectArgs(_, _)
\* The arguments of the lines of msgs that have the given text, in order.
SelectArgs(msgs, text) ==
  IF msgs = <<>> THEN <<>>
  ELSE (IF Head(msgs).text = text THEN <<Head(msgs).arg>> ELSE <<>>)
         \o SelectArgs(Tail(msgs), text)

RECURSIVE EligibleEntries(_, _)
\* The eligible entries of the archives at the given paths, in processing
\* order: archives as given, entries in container order.
EligibleEntries(paths, text) ==
  IF paths = <<>> THEN <<>>
  ELSE LET parsed == ZipArchive_new(fs[Head(paths)].bytes)
           IsEligible(e) == EligibleByFileName(text, e)
       IN (IF parsed = None THEN <<>> ELSE SelectSeq(parsed[1], IsEligible))
            \o EligibleEntries(Tail(paths), text)

\* C9: after a successful run, the "Extracted" lines are, in order, one per
\* eligible entry and name output_dir/<base name>; the file of each base name
\* holds the bytes of the last eligible entry of that base name.
C9_LastWriteWins ==
  \A r \in Runs :
    (Latest(r) /\ worker[r].pc = "exited" /\ worker[r].result = "Ok") =>
      LET w == worker[r]
          es == EligibleEntries(SelectArgs(sent[r], M_Processing(<<>>).text), w.extensions)
          out(e) == join(w.output_path, file_name[e.name][1])
      IN /\ SelectArgs(sent[r], "Extracted: ") = [k \in DOMAIN es |-> out(es[k])]
         /\ \A k \in DOMAIN es :
              /\ out(es[k]) \in DOMAIN fs
              /\ ~fs[out(es[k])].dir
              /\ LET last == CHOOSE j \in DOMAIN es :
                               /\ out(es[j]) = out(es[k])
                               /\ \A h \in DOMAIN es : out(es[h]) = out(es[k]) => h <= j
                 IN fs[out(es[k])].bytes = es[last].data

\* A successful run over the directory wrote r.pdf three times; the bytes on
\* disk are those of the last entry.
C9_Witness ==
  \E r \in Runs :
    /\ Latest(r)
    /\ worker[r].pc = "exited"
    /\ worker[r].result = "Ok"
    /\ worker[r].output_path = P_out
    /\ LET target == join(P_out, <<"r", ".", "p", "d", "f">>)
       IN /\ Cardinality({k \in DOMAIN sent[r] : sent[r][k] = M_Extracted(target)}) = 3
          /\ fs[target].bytes = <<"r3">>

\* C10: is_extracting iff log_rx is Some; while run r is received from, the
\* log followed by the queue is what r has sent so far; when the shell is
\* re-enabled the log is all the last run sent.
C10_LogDelivery ==
  /\ is_extracting <=> log_rx # None
  /\ \A r \in Runs : log_rx = Some(r) =>
       /\ Latest(r)
       /\ log \o chan[r].queue = sent[r]
  /\ (~is_extracting /\ nruns > 0) => log = sent[nruns]

\* The second run's lines have all been delivered and the shell is re-enabled.
C10_Witness ==
  /\ nruns = 2
  /\ ~is_extracting
  /\ log_rx = None
  /\ Len(log) >= 4
  /\ log = sent[2]
  /\ log[Len(log)] = M_Completed
====
